---- MODULE Spec2Model ----
(***************************************************************************)
(* Orchestration and lifecycle layer of so-rad (src/bin/main_app.py):      *)
(* init_all, stop_all and the main loop of run().  Collaborators (GPS      *)
(* monitors, radiometer manager, motor controller, solar geometry,         *)
(* persistence, RPi.GPIO) are modelled by the outcomes their calls can     *)
(* have: a return value drawn from a small set, or an exception.           *)
(***************************************************************************)
EXTENDS Integers, Sequences, FiniteSets, TLC

(* ---------------- bounds ---------------- *)
MaxTime == 60        \* wall-clock horizon of the main loop, seconds
MaxHomePolls == 7    \* poll iterations of the homing loop
MaxTrackPolls == 3   \* poll iterations of one tracking adjustment
MaxMoves == 1        \* tracking adjustments in one run

(* ---------------- program constants ---------------- *)
GpsSources == 2      \* main_app.py:258, the two GPS ports of conf['GPS']
CommitInterval == 60 \* main_app.py:347
CycleSleep == 5      \* main_app.py:366 (and 264)
HomeTimeout == 5     \* main_app.py:143
HomeTolerance == 300 \* main_app.py:144
HomePoll == 1        \* main_app.py:148
TrackTimeout == 5    \* main_app.py:298
TrackTolerance == 300 \* main_app.py:299
TrackPoll == 2       \* main_app.py:303

None == -1           \* Python None for step positions and timestamps
Positions == {0, 200, 1000}        \* step positions the motor can report
SampleDelays == {0, 5}             \* seconds sample_all may block
ClockSteps(interval) == {0, interval}  \* time.clock() advance over one poll
motor == [home_pos |-> 0, step_thresh |-> 100]   \* conf['MOTOR']

(* The tolerance (steps) and move timeout (s) the motor is configured with; *)
(* run() and init_all read neither.                                        *)
MotorConf == [tolerance |-> 100, timeout |-> 3]

Abs(x) == IF x < 0 THEN -x ELSE x

GpsThread(i) == <<"gps", i>>
BearingThread == <<"bearing", 0>>
RadThread == <<"rad", 0>>
GpsThreads(n) == {GpsThread(i) : i \in 1..n}

VARIABLES
  pc,             \* position of the main thread
  exit_code,      \* -1 while running, else the process exit code
  cause,          \* why the normal flow was left
  fault_at,       \* position at which an exception was raised in the loop
  calls,          \* number of stop_all invocations started
  raised,         \* step of stop_all that raised, or "none"
  pins,           \* state of the output pins 11,12,13,15
  gpio_setup,     \* RPi.GPIO: pins are set up as outputs
  db_used,        \* db['used']
  db_open,        \* db['cur'] not closed
  n_gps,          \* len(gps_ports)
  gps_managers,   \* number of started managers in the list; None = name unbound
  handles_bound,  \* run(): the names assigned by line 215 are bound
  alive,          \* producer threads running
  stop_signal,    \* producer threads whose stop signal is set
  now,            \* datetime.datetime.now(), seconds
  clock,          \* time.clock() - t0 of the current poll loop
  polls,          \* poll iterations of the current poll loop
  moves,          \* rotate commands issued by the main loop
  moving,         \* local `moving`
  motor_pos,      \* local `motor_pos`
  target_pos,     \* local `target_pos`
  gps_ready,      \* local `gps_ready`
  rad_ready,      \* local `rad_ready`
  sun_suitable,   \* local `sun_suitable`
  motor_ready,    \* local `motor_ready`: "unbound" or "True"
  solar_az,       \* locals solar_az/solar_el: "unbound", or computed in "this" or an "earlier" cycle
  trigger_id,     \* locals trigger_id / no_trigger_id of the current cycle
  last_commit_time,
  n_meta,         \* number of metadata-only records persisted
  last_row,       \* the record persisted last
  cyc             \* what happened in the current cycle (history)

vars == <<pc, exit_code, cause, fault_at, calls, raised, pins, gpio_setup, db_used, db_open,
          n_gps, gps_managers, handles_bound, alive, stop_signal, now, clock,
          polls, moves, moving, motor_pos, target_pos, gps_ready, rad_ready,
          sun_suitable, motor_ready, solar_az, trigger_id, last_commit_time,
          n_meta, last_row, cyc>>

hwVars == <<pins, gpio_setup, db_used, db_open>>
threadVars == <<n_gps, gps_managers, handles_bound, alive, stop_signal>>
motorVars == <<clock, polls, moves, moving, motor_pos, target_pos>>
loopVars == <<now, gps_ready, rad_ready, sun_suitable, motor_ready,
              solar_az, trigger_id, last_commit_time, n_meta, last_row, cyc>>
exitVars == <<exit_code, cause, fault_at, calls, raised>>

NoRow == [id |-> None, spectra |-> "none", solar |-> "none"]

NoCycle == [gps |-> FALSE, sensors |-> FALSE, motor |-> FALSE, sun |-> FALSE,
            gate |-> FALSE, minted |-> 0, sampled |-> 0, full |-> 0,
            meta |-> 0, rotates |-> 0, t |-> 0, prev |-> None,
            target |-> None, dev |-> FALSE, settled |-> FALSE]

LocalsInit ==
  /\ now = 0 /\ clock = 0 /\ polls = 0 /\ moves = 0 /\ moving = FALSE
  /\ motor_pos = None /\ target_pos = None
  /\ gps_ready = FALSE /\ rad_ready = FALSE /\ sun_suitable = FALSE
  /\ motor_ready = "unbound" /\ solar_az = "unbound" /\ trigger_id = None
  /\ last_commit_time = None /\ n_meta = 0 /\ last_row = NoRow
  /\ cyc = NoCycle

(* State when run() is about to call init_all (line 215). *)
Init ==
  /\ pc = "init_db" /\ exit_code = -1 /\ cause = "none" /\ calls = 0
  /\ fault_at = "none" /\ raised = "none"
  /\ pins \in {"ON", "OFF"} /\ gpio_setup = FALSE
  /\ db_used \in BOOLEAN /\ db_open = FALSE
  /\ n_gps = 0 /\ gps_managers = None /\ handles_bound = FALSE
  /\ alive = {} /\ stop_signal = {}
  /\ LocalsInit

(* An exception leaves init_all: control goes to the handler of line 216. *)
InitRaise ==
  /\ pc' = "init_handler" /\ cause' = "init_error" /\ fault_at' = pc
  /\ UNCHANGED <<exit_code, calls, raised>>

(* ---------------- init_all ---------------- *)
db_init ==
  /\ pc = "init_db"
  /\ \/ /\ pc' = "init_gpio" /\ db_open' = db_used
        /\ UNCHANGED <<exitVars, pins, gpio_setup, db_used>>
     \/ /\ InitRaise /\ UNCHANGED hwVars
  /\ UNCHANGED <<threadVars, motorVars, loopVars>>

(* init_gpio without the reset of the pins. *)
init_gpio_NoReset ==
  /\ pc = "init_gpio"
  /\ pc' = "init_discover"
  /\ gpio_setup' = TRUE
  /\ UNCHANGED <<exitVars, pins, db_used, db_open, threadVars, motorVars,
                 loopVars>>

(* Line 102: initialisation.init_gpio(conf, state=0) *)
init_gpio ==
  /\ pc = "init_gpio"
  /\ pc' = "init_discover"
  /\ pins' = "OFF" /\ gpio_setup' = TRUE
  /\ UNCHANGED <<exitVars, db_used, db_open, threadVars, motorVars, loopVars>>

(* rad_init may switch the radiometer supply pins on. *)
rad_init_pins(p) == {p, "ON"}

discover ==
  /\ pc = "init_discover"
  /\ \/ /\ \E n \in 0..GpsSources : n_gps' = n
        /\ pins' \in rad_init_pins(pins)
        /\ pc' = "init_gps"
        /\ UNCHANGED exitVars
     \/ /\ InitRaise /\ UNCHANGED <<n_gps, pins>>
  /\ UNCHANGED <<gpio_setup, db_used, db_open, gps_managers, handles_bound,
                 alive, stop_signal, motorVars, loopVars>>

(* Lines 120-128: one pass of the for loop per step. *)
start_gps ==
  /\ pc = "init_gps"
  /\ \/ /\ n_gps = 0                       \* else branch: only logs
        /\ pc' = "init_checker"
        /\ UNCHANGED <<exitVars, gps_managers, alive>>
     \/ /\ n_gps > 0
        /\ LET k == IF gps_managers = None THEN 0 ELSE gps_managers IN
           IF k < n_gps
           THEN \/ /\ gps_managers' = k + 1
                   /\ alive' = alive \cup {GpsThread(k + 1)}
                   /\ pc' = pc
                   /\ UNCHANGED exitVars
                \/ /\ InitRaise
                   /\ gps_managers' = k
                   /\ UNCHANGED alive
           ELSE /\ pc' = "init_checker"
                /\ UNCHANGED <<exitVars, gps_managers, alive>>
  /\ UNCHANGED <<hwVars, n_gps, handles_bound, stop_signal, motorVars, loopVars>>

(* Lines 133-134: GPSChecker(gps_managers).start() *)
start_gps_checker ==
  /\ pc = "init_checker"
  /\ IF gps_managers = None
     THEN InitRaise /\ UNCHANGED alive             \* UnboundLocalError
     ELSE \/ /\ alive' = alive \cup {BearingThread}
             /\ pc' = "init_home"
             /\ UNCHANGED exitVars
          \/ InitRaise /\ UNCHANGED alive
  /\ UNCHANGED <<hwVars, n_gps, gps_managers, handles_bound, stop_signal,
                 motorVars, loopVars>>

(* motor_moving(serial, target, tolerance): the moving flag for a position. *)
motor_moving(pos, target, tolerance) ==
  IF pos = None THEN None
  ELSE IF Abs(pos - target) > tolerance THEN 1 ELSE 0

(* Lines 137-141 and 150-151. *)
home_motor ==
  /\ pc = "init_home"
  /\ \/ \E p \in Positions \cup {None} :
          /\ motor_pos' = p
          /\ IF p # motor.home_pos
             THEN /\ clock' = 0 /\ polls' = 0 /\ moving' = TRUE
                  /\ pc' = "init_home_poll"
             ELSE /\ pc' = "init_rad"
                  /\ UNCHANGED <<clock, polls, moving>>
          /\ UNCHANGED exitVars
     \/ /\ InitRaise /\ UNCHANGED <<motor_pos, clock, polls, moving>>
  /\ UNCHANGED <<hwVars, threadVars, moves, target_pos, loopVars>>

(* Lines 143-149: one evaluation of the while condition and, when it is     *)
(* true, one pass of the body.                                             *)
home_poll ==
  /\ pc = "init_home_poll"
  /\ IF moving /\ clock < HomeTimeout
     THEN /\ polls < MaxHomePolls
          /\ \/ \E p \in Positions \cup {None}, d \in ClockSteps(HomePoll) :
                  /\ LET m == motor_moving(p, motor.home_pos, HomeTolerance)
                     IN  moving' = IF m = None THEN TRUE ELSE m = 1
                  /\ clock' = clock + d
                  /\ polls' = polls + 1
                  /\ pc' = pc
                  /\ UNCHANGED exitVars
             \/ /\ InitRaise /\ UNCHANGED <<moving, clock, polls>>
     ELSE /\ pc' = "init_rad"
          /\ clock' = 0 /\ polls' = 0
          /\ UNCHANGED <<exitVars, moving>>
  /\ UNCHANGED <<hwVars, threadVars, moves, motor_pos, target_pos, loopVars>>

(* Line 156: RadManager.TriosManager(rad) *)
start_radiometry_manager ==
  /\ pc = "init_rad"
  /\ \/ /\ alive' = alive \cup {RadThread}
        /\ pc' = "init_return"
        /\ UNCHANGED exitVars
     \/ InitRaise /\ UNCHANGED alive
  /\ UNCHANGED <<hwVars, n_gps, gps_managers, handles_bound, stop_signal,
                 motorVars, loopVars>>

(* Lines 160, 215, 220-241: init_all returns, run() binds the handles and   *)
(* initialises the loop's locals.                                          *)
init_return ==
  /\ pc = "init_return"
  /\ handles_bound' = TRUE
  /\ last_commit_time' = now
  /\ trigger_id' = None
  /\ motor_pos' = None /\ moving' = FALSE     \* init_all's locals end here
  /\ pc' = "check"
  /\ UNCHANGED <<exitVars, hwVars, n_gps, gps_managers, alive, stop_signal,
                 clock, polls, moves, target_pos, now, gps_ready, rad_ready,
                 sun_suitable, motor_ready, solar_az, n_meta, last_row, cyc>>

(* Lines 216-219: `log` is one of the names line 215 binds. *)
init_handler ==
  /\ pc = "init_handler"
  /\ IF handles_bound
     THEN /\ pc' = "sa_db" /\ calls' = calls + 1
          /\ UNCHANGED <<exit_code, cause, fault_at, raised>>
     ELSE /\ pc' = "done" /\ exit_code' = 1        \* UnboundLocalError
          /\ UNCHANGED <<cause, fault_at, calls, raised>>
  /\ UNCHANGED <<hwVars, threadVars, motorVars, loopVars>>

(* ---------------- stop_all ---------------- *)
(* An exception leaves stop_all: it was called from an except clause, so    *)
(* it leaves run() and the interpreter exits with a traceback.             *)
StopAllRaise ==
  /\ pc' = "done" /\ exit_code' = 1 /\ raised' = pc
  /\ UNCHANGED <<cause, fault_at, calls>>

(* Lines 168-169 *)
close_db(fail) ==
  /\ pc = "sa_db"
  /\ IF db_used
     THEN IF fail
          THEN StopAllRaise /\ UNCHANGED db_open
          ELSE /\ db_open' = FALSE /\ pc' = "sa_gpio" /\ UNCHANGED exitVars
     ELSE /\ ~fail
          /\ pc' = "sa_gpio" /\ UNCHANGED <<exitVars, db_open>>
  /\ UNCHANGED <<pins, gpio_setup, db_used, threadVars, motorVars, loopVars>>

(* Lines 172-174: GPIO.output raises RuntimeError on channels that are not  *)
(* set up as outputs (gpio_off.py sets them up first); GPIO.cleanup()       *)
(* releases every channel.                                                 *)
gpio_low(fail) ==
  /\ pc = "sa_gpio"
  /\ IF gpio_setup /\ ~fail
     THEN /\ pins' = "OFF" /\ gpio_setup' = FALSE
          /\ pc' = "sa_stop" /\ UNCHANGED exitVars
     ELSE /\ StopAllRaise /\ UNCHANGED <<pins, gpio_setup>>
  /\ UNCHANGED <<db_used, db_open, threadVars, motorVars, loopVars>>

(* Lines 176-187: del() unbinds stop_all's own parameter names and does     *)
(* nothing to the objects, which run() still references; then every GPS     *)
(* manager is stopped in list order, failAt = 0 meaning none fails.        *)
stop_managers(failAt) ==
  /\ pc = "sa_stop"
  /\ LET n == IF gps_managers = None THEN 0 ELSE gps_managers IN
     /\ failAt \in 0..n
     /\ IF failAt = 0
        THEN /\ stop_signal' = stop_signal \cup GpsThreads(n)
             /\ pc' = "sa_wait" /\ UNCHANGED exitVars
        ELSE /\ stop_signal' = stop_signal \cup GpsThreads(failAt - 1)
             /\ StopAllRaise
  /\ UNCHANGED <<hwVars, n_gps, gps_managers, handles_bound, alive,
                 motorVars, loopVars>>

(* threading.enumerate() lists the threads in the order they were started. *)
FirstAlive ==
  IF \E i \in 1..GpsSources : GpsThread(i) \in alive
  THEN GpsThread(CHOOSE i \in 1..GpsSources :
                   /\ GpsThread(i) \in alive
                   /\ \A j \in 1..(i - 1) : GpsThread(j) \notin alive)
  ELSE IF BearingThread \in alive THEN BearingThread ELSE RadThread

(* Lines 192-197: t.join() returns once thread t has ended: a thread ends   *)
(* on observing its stop signal; one whose signal is not set ends only of   *)
(* its own accord (ownEnd), and until then join blocks.                    *)
join_thread(ownEnd) ==
  /\ pc = "sa_wait"
  /\ alive # {}
  /\ ownEnd = (FirstAlive \notin stop_signal)
  /\ alive' = alive \ {FirstAlive}
  /\ UNCHANGED <<pc, exitVars, hwVars, n_gps, gps_managers, handles_bound,
                 stop_signal, motorVars, loopVars>>

(* Lines 192, 200: no thread but the main one is left; sys.exit(0) raises   *)
(* SystemExit, which nothing catches.                                      *)
sys_exit ==
  /\ pc = "sa_wait"
  /\ alive = {}
  /\ pc' = "done" /\ exit_code' = 0
  /\ UNCHANGED <<cause, fault_at, calls, raised, hwVars, threadVars, motorVars, loopVars>>

(* ---------------- main loop of run() ---------------- *)
(* The except clauses read only the handles: once control leaves the try,  *)
(* the values of the loop's locals are of no further use and are dropped.  *)
DropLocals ==
  /\ clock' = 0 /\ polls' = 0 /\ moves' = 0 /\ moving' = FALSE
  /\ motor_pos' = None /\ target_pos' = None
  /\ gps_ready' = FALSE /\ rad_ready' = FALSE /\ sun_suitable' = FALSE
  /\ motor_ready' = "unbound" /\ solar_az' = "unbound" /\ trigger_id' = None
  /\ last_commit_time' = None /\ cyc' = NoCycle
  /\ now' = 0                          \* time.time() is not read again
  /\ UNCHANGED <<n_meta, last_row>>

(* An exception other than KeyboardInterrupt is raised inside the try.     *)
LoopRaise ==
  /\ pc' = "handler_exc" /\ cause' = "exception" /\ fault_at' = pc
  /\ DropLocals
  /\ UNCHANGED <<exit_code, calls, raised, hwVars, threadVars>>

(* Lines 243-252.  The locals that every cycle writes before it reads them  *)
(* (sun_suitable, motor_pos, target_pos, moving, trigger_id) carry no       *)
(* value from one cycle into the next and are cleared here; motor_ready     *)
(* and solar_az/solar_el are the two that do.                              *)
check_ready ==
  /\ pc = "check"
  /\ now <= MaxTime
  /\ \/ /\ \E g \in BOOLEAN, r \in BOOLEAN :
             /\ gps_ready' = g /\ rad_ready' = r
             /\ cyc' = [NoCycle EXCEPT !.gps = g, !.sensors = r, !.t = now]
        /\ solar_az' = IF solar_az = "this" THEN "earlier" ELSE solar_az
        /\ sun_suitable' = FALSE /\ motor_pos' = None /\ target_pos' = None
        /\ moving' = FALSE /\ trigger_id' = None
        /\ pc' = "branch"
        /\ UNCHANGED <<exitVars, hwVars, threadVars, clock, polls, moves, now,
                       motor_ready, last_commit_time, n_meta, last_row>>
     \/ LoopRaise

(* Lines 254-265 and 306-308 *)
read_motor ==
  /\ pc = "branch"
  /\ \/ /\ gps_ready /\ gps_managers >= 2
        /\ \E p \in Positions \cup {None} :
             /\ motor_pos' = p
             /\ IF p = None
                THEN pc' = "sleep_continue" /\ UNCHANGED cyc
                ELSE pc' = "geometry" /\ cyc' = [cyc EXCEPT !.motor = TRUE]
        /\ UNCHANGED sun_suitable
     \/ /\ ~gps_ready
        /\ sun_suitable' = FALSE
        /\ pc' = "gate"
        /\ UNCHANGED <<motor_pos, cyc>>
  /\ UNCHANGED <<exitVars, hwVars, threadVars, clock, polls, moves, moving,
                 target_pos, now, gps_ready, rad_ready, motor_ready, solar_az,
                 trigger_id, last_commit_time, n_meta, last_row>>

(* Line 258: gps_managers[1] of a shorter list is an IndexError; and        *)
(* get_motor_pos may raise.                                                *)
read_motor_raise ==
  /\ pc = "branch" /\ gps_ready
  /\ LoopRaise

(* The condition of line 291 without its sun_suitable operand. *)
NeedsMove_NoSun(s, tgt, pos) == Abs(tgt - pos) > motor.step_thresh

(* Line 291 *)
NeedsMove(s, tgt, pos) == s /\ Abs(tgt - pos) > motor.step_thresh

(* History: the target of this cycle is further from the position read in  *)
(* this cycle than the configured step threshold.                          *)
Deviates(tgt, pos) == Abs(tgt - pos) > motor.step_thresh

(* Lines 267-297 and, when no move is needed, 304 *)
solar_geometry ==
  /\ pc = "geometry"
  /\ \/ /\ \E tgt \in Positions, s \in BOOLEAN :
             /\ sun_suitable' = s
             /\ IF NeedsMove(s, tgt, motor_pos)
                THEN /\ moves < MaxMoves
                     /\ moves' = moves + 1
                     /\ target_pos' = tgt
                     /\ moving' = TRUE /\ clock' = 0 /\ polls' = 0
                     /\ cyc' = [cyc EXCEPT !.sun = s, !.rotates = @ + 1,
                                            !.target = tgt,
                                            !.dev = Deviates(tgt, motor_pos)]
                     /\ pc' = "track_poll"
                     /\ UNCHANGED motor_ready
                ELSE /\ motor_ready' = "True"
                     /\ cyc' = [cyc EXCEPT !.sun = s, !.target = tgt,
                                            !.dev = Deviates(tgt, motor_pos)]
                     /\ pc' = "gate"
                     /\ UNCHANGED <<target_pos, moving, clock, polls, moves>>
        /\ solar_az' = "this"
        /\ UNCHANGED <<exitVars, hwVars, threadVars, motor_pos, now, gps_ready,
                       rad_ready, trigger_id, last_commit_time, n_meta, last_row>>
     \/ LoopRaise

(* Lines 298-304: one evaluation of the while condition and, when it is     *)
(* true, one pass of the body.                                             *)
track_poll ==
  /\ pc = "track_poll"
  /\ IF moving /\ clock < TrackTimeout
     THEN \/ /\ polls < MaxTrackPolls
             /\ \E p \in Positions \cup {None}, d \in ClockSteps(TrackPoll) :
                  /\ LET m == motor_moving(p, target_pos, TrackTolerance)
                     IN  moving' = IF m = None THEN TRUE ELSE m = 1
                  /\ motor_pos' = p
                  /\ clock' = clock + d
             /\ polls' = polls + 1
             /\ now' = now + TrackPoll
             /\ pc' = pc
             /\ UNCHANGED <<exitVars, hwVars, threadVars, moves, target_pos,
                            gps_ready, rad_ready, sun_suitable, motor_ready,
                            solar_az, trigger_id, last_commit_time, n_meta, last_row,
                         cyc>>
          \/ LoopRaise
     ELSE /\ motor_ready' = "True"
          /\ clock' = 0 /\ polls' = 0
          /\ cyc' = [cyc EXCEPT !.settled = TRUE]
          /\ pc' = "gate"
          /\ UNCHANGED <<exitVars, hwVars, threadVars, moves, moving, motor_pos,
                         target_pos, now, gps_ready, rad_ready, sun_suitable,
                         solar_az, trigger_id, last_commit_time, n_meta, last_row>>

(* The gate without its sun_suitable operand. *)
GateOpen_NoSun == gps_ready /\ motor_ready = "True" /\ rad_ready

(* Line 325 *)
GateOpen == gps_ready /\ motor_ready = "True" /\ rad_ready /\ sun_suitable

(* Lines 325-329, 347-357.  Line 325 reads motor_ready, lines 353-354 read  *)
(* gps_managers[0] and [1].                                                *)
gate ==
  /\ pc = "gate"
  /\ IF motor_ready = "unbound"
     THEN LoopRaise                                  \* UnboundLocalError
     ELSE IF GateOpen
     THEN /\ trigger_id' = now
          /\ cyc' = [cyc EXCEPT !.gate = TRUE, !.minted = @ + 1]
          /\ pc' = "sample"
          /\ UNCHANGED <<exitVars, hwVars, threadVars, motorVars, now,
                         gps_ready, rad_ready, sun_suitable, motor_ready,
                         solar_az, last_commit_time, n_meta, last_row>>
     ELSE IF Abs(now - last_commit_time) < CommitInterval
     THEN /\ pc' = "sleep"
          /\ UNCHANGED <<exitVars, hwVars, threadVars, motorVars, loopVars>>
     ELSE IF gps_managers < 2
     THEN LoopRaise                                  \* IndexError
     ELSE /\ trigger_id' = now
          /\ pc' = IF db_used THEN "commit_meta" ELSE "sleep"
          /\ UNCHANGED <<exitVars, hwVars, threadVars, motorVars, now,
                         gps_ready, rad_ready, sun_suitable, motor_ready,
                         solar_az, last_commit_time, n_meta, last_row,
                         cyc>>

(* Lines 334-340 *)
sample_all ==
  /\ pc = "sample"
  /\ \/ /\ \E d \in SampleDelays : now' = now + d
        /\ cyc' = [cyc EXCEPT !.sampled = @ + 1]
        /\ pc' = IF db_used THEN "commit_full" ELSE "sleep"
        /\ UNCHANGED <<exitVars, hwVars, threadVars, motorVars, gps_ready,
                       rad_ready, sun_suitable, motor_ready, solar_az,
                       trigger_id, last_commit_time, n_meta, last_row>>
     \/ LoopRaise

(* A TriggerRecord as commit_db receives it. *)
Row(id, spectra) ==
  [id |-> id, spectra |-> spectra, solar |-> solar_az]

(* commit_full without line 343. *)
commit_full_NoTime ==
  /\ pc = "commit_full"
  /\ \/ /\ last_row' = Row(trigger_id, "data")
        /\ cyc' = [cyc EXCEPT !.full = @ + 1, !.prev = last_row.id]
        /\ pc' = "sleep"
        /\ UNCHANGED <<exitVars, hwVars, threadVars, motorVars, now, gps_ready,
                       rad_ready, sun_suitable, motor_ready, solar_az,
                       trigger_id, last_commit_time, n_meta>>
     \/ LoopRaise

(* Lines 341-344 *)
commit_full ==
  /\ pc = "commit_full"
  /\ \/ /\ last_row' = Row(trigger_id, "data")
        /\ last_commit_time' = now
        /\ cyc' = [cyc EXCEPT !.full = @ + 1, !.prev = last_row.id]
        /\ pc' = "sleep"
        /\ UNCHANGED <<exitVars, hwVars, threadVars, motorVars, now, gps_ready,
                       rad_ready, sun_suitable, motor_ready, solar_az,
                       trigger_id, n_meta>>
     \/ LoopRaise

(* Lines 360-363: the arguments are evaluated before the call. *)
commit_meta ==
  /\ pc = "commit_meta"
  /\ \/ /\ solar_az # "unbound"
        /\ last_row' = Row(trigger_id, "null") /\ n_meta' = n_meta + 1
        /\ last_commit_time' = now
        /\ cyc' = [cyc EXCEPT !.meta = @ + 1, !.prev = last_row.id]
        /\ pc' = "sleep"
        /\ UNCHANGED <<exitVars, hwVars, threadVars, motorVars, now, gps_ready,
                       rad_ready, sun_suitable, motor_ready, solar_az,
                       trigger_id>>
     \/ LoopRaise                    \* UnboundLocalError, or commit_db raises

(* The end of a cycle without the sleep of line 366. *)
cycle_sleep_NoWait ==
  /\ pc = "sleep"
  /\ pc' = "check"
  /\ UNCHANGED <<exitVars, hwVars, threadVars, motorVars, loopVars>>

(* Lines 365-366 *)
cycle_sleep ==
  /\ pc = "sleep"
  /\ now' = now + CycleSleep
  /\ pc' = "check"
  /\ UNCHANGED <<exitVars, hwVars, threadVars, motorVars, gps_ready,
                 rad_ready, sun_suitable, motor_ready, solar_az, trigger_id,
                 last_commit_time, n_meta, last_row,
                         cyc>>

(* Lines 263-265 *)
sleep_continue ==
  /\ pc = "sleep_continue"
  /\ now' = now + CycleSleep
  /\ pc' = "check"
  /\ UNCHANGED <<exitVars, hwVars, threadVars, motorVars, gps_ready,
                 rad_ready, sun_suitable, motor_ready, solar_az, trigger_id,
                 last_commit_time, n_meta, last_row,
                         cyc>>

TryPcs == {"check", "branch", "geometry", "track_poll", "gate", "sample",
           "commit_full", "commit_meta", "sleep", "sleep_continue"}

(* KeyboardInterrupt is delivered at any point inside the try. *)
interrupt ==
  /\ pc \in TryPcs
  /\ pc' = "handler_ki" /\ cause' = "interrupt" /\ fault_at' = pc
  /\ DropLocals
  /\ UNCHANGED <<exit_code, calls, raised, hwVars, threadVars>>

(* Lines 368-370 *)
handler_ki ==
  /\ pc = "handler_ki"
  /\ pc' = "sa_db" /\ calls' = calls + 1
  /\ UNCHANGED <<exit_code, cause, fault_at, raised, hwVars, threadVars,
                 motorVars, loopVars>>

(* Lines 371-373; line 374 follows the call of stop_all. *)
handler_exc ==
  /\ pc = "handler_exc"
  /\ pc' = "sa_db" /\ calls' = calls + 1
  /\ UNCHANGED <<exit_code, cause, fault_at, raised, hwVars, threadVars,
                 motorVars, loopVars>>

stop_all ==
  \/ \E f \in BOOLEAN : close_db(f)
  \/ \E f \in BOOLEAN : gpio_low(f)
  \/ \E k \in 0..GpsSources : stop_managers(k)
  \/ \E e \in BOOLEAN : join_thread(e)
  \/ sys_exit

Next ==
  \/ db_init \/ init_gpio \/ discover \/ start_gps \/ start_gps_checker
  \/ home_motor \/ home_poll \/ start_radiometry_manager \/ init_return
  \/ init_handler
  \/ check_ready \/ read_motor \/ read_motor_raise \/ solar_geometry \/ track_poll \/ gate
  \/ sample_all \/ commit_full \/ commit_meta \/ cycle_sleep \/ sleep_continue
  \/ interrupt \/ handler_ki \/ handler_exc
  \/ stop_all

Spec == Init /\ [][Next]_vars

(* ---------------- stop_all invoked twice on the same handles ------------ *)
(* Handles with any number of GPS managers; the bearing thread runs, the    *)
(* GPS and radiometer threads may have ended already.                      *)
InitTwice ==
  /\ pc = "sa_db" /\ exit_code = -1 /\ cause = "none" /\ calls = 1
  /\ fault_at = "none" /\ raised = "none"
  /\ pins \in {"ON", "OFF"} /\ gpio_setup = TRUE
  /\ db_used \in BOOLEAN /\ db_open = db_used
  /\ n_gps \in 0..GpsSources /\ gps_managers = n_gps /\ handles_bound = TRUE
  /\ \E S \in SUBSET (GpsThreads(n_gps) \cup {RadThread}) :
        alive = S \cup {BearingThread}
  /\ stop_signal = {}
  /\ LocalsInit

(* The caller catches the SystemExit of the first call and calls again. *)
call_again ==
  /\ pc = "done" /\ exit_code = 0 /\ calls = 1
  /\ pc' = "sa_db" /\ calls' = 2 /\ exit_code' = -1
  /\ UNCHANGED <<cause, fault_at, raised, hwVars, threadVars, motorVars,
                 loopVars>>

NextTwice ==
  \/ close_db(FALSE) \/ gpio_low(FALSE) \/ stop_managers(0)
  \/ \E e \in BOOLEAN : join_thread(e)
  \/ sys_exit \/ call_again

SpecTwice == InitTwice /\ [][NextTwice]_vars

(* ======================= properties ======================= *)
EndOfCycle == pc \in {"sleep", "sleep_continue"}

(* C1: an exception other than KeyboardInterrupt that escapes a loop        *)
(* iteration ends the process, after stop_all, with a non-zero exit code;  *)
(* a KeyboardInterrupt ends it, after the same stop_all, with exit code 0. *)
(* Stated for the runs in which no step of stop_all itself raises.         *)
C1_ExitCodes ==
  (pc = "done" /\ raised = "none") =>
     /\ cause = "exception" => (calls = 1 /\ exit_code # 0)
     /\ cause = "interrupt" => (calls = 1 /\ exit_code = 0)

(* C2: once init_all has been entered, the pins are OFF in the state in     *)
(* which the process terminates, whatever ended it.                        *)
C2_PinsOffAtExit == pc = "done" => pins = "OFF"

(* C3: when init_all fails, stop_all has been invoked before the process    *)
(* ends with the initialisation error.                                     *)
C3_TeardownAfterInitFailure ==
  (pc = "done" /\ cause = "init_error") => calls >= 1

(* C4: stop_all never propagates the failure of one of its steps and still  *)
(* performs the others: after it, the pins are OFF and every GPS manager    *)
(* has been asked to stop.                                                 *)
C4_BestEffortSteps ==
  (pc = "done" /\ calls >= 1) =>
     /\ raised = "none"
     /\ pins = "OFF"
     /\ GpsThreads(gps_managers) \subseteq stop_signal

(* C5: a second invocation of stop_all on the same handles does not raise,  *)
(* and the pins are OFF after the first and after the second invocation.   *)
C5_Idempotent ==
  (pc = "done" /\ calls >= 1) => (raised = "none" /\ pins = "OFF")

(* C6: when stop_all starts to wait for the threads, the stop signal of     *)
(* every producer still running (GPS monitors, bearing estimator,           *)
(* radiometer manager) has been set.                                       *)
C6_AllSignalledBeforeWait == pc = "sa_wait" => alive \subseteq stop_signal

(* C7: sample_all is invoked only in a cycle in which check_gps and         *)
(* check_sensors returned true, the motor position was read and check_sun   *)
(* returned true for that cycle's geometry.                                *)
C7_SamplingGated ==
  (pc = "sample" \/ cyc.sampled > 0) =>
     (cyc.gps /\ cyc.sensors /\ cyc.motor /\ cyc.sun)

(* A later cycle, with values of an earlier one around, is about to sample. *)
C7_Witness == pc = "sample" /\ cyc.t >= CycleSleep /\ cyc.gps /\ cyc.motor

(* What a gate-true cycle has done when it reaches its sleep: one id, one   *)
(* sample_all, one full record with that id, last_commit_time set in the    *)
(* cycle, no metadata-only record.                                         *)
FullTrigger ==
  /\ cyc.minted = 1 /\ cyc.sampled = 1 /\ cyc.full = 1 /\ cyc.meta = 0
  /\ last_row.id = trigger_id /\ last_row.spectra = "data"
  /\ last_commit_time = now /\ last_commit_time >= cyc.t

(* C8 as stated: every cycle whose gate is true persists one full record.   *)
C8_EveryGateTrueCycle == (pc = "sleep" /\ cyc.gate) => FullTrigger

(* C8 amended: every cycle whose gate is true, with persistence in use and  *)
(* run to its sleep, has minted one trigger_id, called sample_all once,     *)
(* persisted one full record with that id and set last_commit_time.        *)
C8_GateTrueCycleWithDb == (pc = "sleep" /\ cyc.gate /\ db_used) => FullTrigger

(* A later cycle has rotated the motor and committed its full trigger. *)
C8_Witness ==
  pc = "sleep" /\ cyc.gate /\ db_used /\ cyc.t >= CycleSleep /\ cyc.rotates = 1

(* C9: a metadata-only record that follows a metadata-only record has an   *)
(* id at least 60 s later, and a run whose gate has been false in every     *)
(* cycle has persisted exactly one metadata-only record by the end of the   *)
(* first cycle that starts 60 s after startup.                             *)
C9_RateLimit ==
  /\ (pc = "commit_meta" /\ last_row.spectra = "null")
       => trigger_id - last_row.id >= CommitInterval
  /\ (EndOfCycle /\ db_used /\ ~cyc.gate /\ cyc.t >= CommitInterval
        /\ last_row.spectra # "data")
       => (n_meta = 1 /\ last_row.spectra = "null")

(* C10: a cycle whose gate is false ends with last_commit_time less than    *)
(* 60 s old: if 60 s had elapsed, the cycle has persisted a metadata-only   *)
(* record and advanced last_commit_time, whatever made it not ready.       *)
C10_Heartbeat ==
  (EndOfCycle /\ db_used /\ ~cyc.gate) =>
     /\ Abs(now - last_commit_time) < CommitInterval
     /\ cyc.meta = 1 => (last_row.spectra = "null" /\ last_commit_time = now)

(* C11: a cycle in which the GPS fixes are stale and fewer than 60 s have   *)
(* elapsed since last_commit_time, the first cycle included, evaluates its  *)
(* gate to false and goes on to its sleep: no sample_all, no record, the    *)
(* same last_commit_time, no teardown (a KeyboardInterrupt aside).          *)
C11_StaleGpsCycle ==
  [][(/\ pc = "gate" /\ ~gps_ready
      /\ Abs(now - last_commit_time) < CommitInterval
      /\ cause' # "interrupt")
       => /\ pc' = "sleep"
          /\ cyc'.sampled = 0 /\ cyc'.full = 0 /\ cyc'.meta = 0
          /\ last_row' = last_row /\ n_meta' = n_meta
          /\ last_commit_time' = last_commit_time]_vars

(* C12: when sample_all raises in a gate-true cycle, no record is persisted *)
(* for the trigger_id of that cycle and last_commit_time is not advanced;   *)
(* and when the process then terminates, the pins are OFF and every GPS     *)
(* manager has been asked to stop.                                         *)
C12_SamplingFault ==
  /\ [][(pc = "sample" /\ pc' = "handler_exc")
          => /\ last_row' = last_row /\ last_row.id # trigger_id
             /\ n_meta' = n_meta
             /\ last_commit_time' <= last_commit_time]_vars
  /\ []((pc = "done" /\ cause = "exception" /\ fault_at = "sample")
          => /\ pins = "OFF"
             /\ GpsThreads(gps_managers) \subseteq stop_signal)

(* C13: with zero GPS ports discovered, init_all does not fail at the       *)
(* GPS-dependent step (the bearing estimator is started over the empty      *)
(* list of monitors), and every main-loop cycle then has gps_ready false    *)
(* and calls no sample_all.                                                *)
C13_ZeroGpsPorts ==
  (n_gps = 0 /\ pc \notin {"init_db", "init_gpio", "init_discover"}) =>
     /\ ~(cause = "init_error" /\ fault_at = "init_checker")
     /\ pc \in TryPcs => (~gps_ready /\ cyc.sampled = 0)

(* C14: every record that is persisted has a trigger identifier strictly    *)
(* greater than that of the record persisted before it, full and            *)
(* metadata-only records taken together.                                   *)
C14_StrictlyIncreasingIds ==
  [][(pc \in {"commit_full", "commit_meta"} /\ pc' = "sleep")
       => last_row'.id > last_row.id]_vars

(* A record has been persisted in a cycle that found an earlier record. *)
C14_Witness ==
  pc = "sleep" /\ cyc.full + cyc.meta = 1 /\ cyc.prev # None

(* C15: a motor poll loop has ended once its timeout plus one poll interval *)
(* of wall-clock time has elapsed: the wall-clock time spent in the homing  *)
(* loop (one HomePoll sleep per pass) and in a tracking loop (one TrackPoll *)
(* sleep per pass) never exceeds the timeout plus one poll interval.        *)
C15_PollLoopsBounded ==
  /\ pc = "init_home_poll" => polls * HomePoll <= HomeTimeout + HomePoll
  /\ pc = "track_poll" => polls * TrackPoll <= TrackTimeout + TrackPoll

(* C16: a cycle issues at most one rotate command, and issues one exactly   *)
(* when GPS is ready, the motor position was read, check_sun returned true  *)
(* and the target is further than the step threshold from the position;    *)
(* the command carries the target computed in that cycle, and its poll      *)
(* loop has ended when the gate is evaluated and when sample_all is called. *)
C16_RotateOncePerCycle ==
  /\ cyc.rotates <= 1
  /\ cyc.rotates = 1 <=> (cyc.gps /\ cyc.motor /\ cyc.sun /\ cyc.dev)
  /\ cyc.rotates = 1 => target_pos = cyc.target
  /\ (cyc.rotates = 1 /\ pc \in {"gate", "sample", "commit_full",
                                 "commit_meta", "sleep"}) => cyc.settled

(* A cycle that rotated the motor is about to call sample_all. *)
C16_Witness == pc = "sample" /\ cyc.rotates = 1 /\ cyc.settled

(* C17: sample_all is not called in a cycle whose tracking adjustment ended *)
(* with the motor still moving (or its moving-flag unreadable) and not      *)
(* within the tolerance band of the target.                                *)
C17_NoSampleWhileMoving ==
  (pc = "sample" \/ cyc.sampled > 0) =>
     ~(/\ cyc.rotates = 1 /\ moving
       /\ (motor_pos = None \/ Abs(motor_pos - target_pos) > TrackTolerance))

InitPcs == {"init_db", "init_gpio", "init_discover", "init_gps",
            "init_checker", "init_home", "init_home_poll", "init_rad",
            "init_return"}

(* C18: in init_all the pins are OFF when device discovery begins, every    *)
(* GPS monitor has been started when the bearing estimator is, the homing   *)
(* loop has ended when the radiometer manager is created, and the           *)
(* radiometer manager is started after every other component; until         *)
(* init_all has returned there has been no readiness evaluation, no         *)
(* tracking rotate and no sample_all.                                      *)
C18_StartupOrder ==
  /\ pc = "init_discover" => (pins = "OFF" /\ gpio_setup)
  /\ pc \in {"init_discover", "init_gps", "init_checker"} => alive \subseteq GpsThreads(n_gps)
  /\ (pc \in InitPcs /\ BearingThread \in alive) =>
        (gps_managers = n_gps /\ GpsThreads(n_gps) \subseteq alive)
  /\ pc \in {"init_home", "init_home_poll"} => RadThread \notin alive
  /\ (pc \in InitPcs /\ RadThread \in alive) =>
        /\ pc = "init_return"
        /\ BearingThread \in alive /\ GpsThreads(n_gps) \subseteq alive
        /\ polls = 0 /\ clock = 0
  /\ (pc \in InitPcs \/ ~handles_bound) =>
        (cyc = NoCycle /\ moves = 0 /\ last_row = NoRow /\ trigger_id = None)

(* init_all is about to return after homing a motor that was away from     *)
(* home, with both GPS monitors started.                                   *)
C18_Witness ==
  /\ pc = "init_return" /\ n_gps = GpsSources /\ motor_pos = 1000
  /\ alive = GpsThreads(GpsSources) \cup {BearingThread, RadThread}

(* C19: the solar azimuth and elevation of every persisted record were      *)
(* computed in the cycle that persists the record.                         *)
C19_SolarOfThisCycle == last_row # NoRow => last_row.solar = "this"

(* C20: the tracking poll loop goes round only while the motor is further   *)
(* from the target than the configured tolerance and less than the          *)
(* configured timeout has elapsed, and it is left only when one of the two  *)
(* no longer holds.                                                        *)
C20_TrackingUsesConfig ==
  [][pc = "track_poll" =>
       /\ pc' = "track_poll" =>
             /\ clock < MotorConf.timeout
             /\ motor_pos' # None =>
                  (moving' <=> Abs(motor_pos' - target_pos) > MotorConf.tolerance)
       /\ pc' = "gate" => (~moving \/ clock >= MotorConf.timeout)]_vars

====
